---- MODULE Spec2Model ----
(***************************************************************************)
(* eckit: the maths expression engine (Expr::eval / Expr::param, Undef,    *)
(* Count) and the linalg Tensor stream round trip, as state machines.      *)
(*                                                                         *)
(* An expression node is a record [kind, val, args]; args is the C++       *)
(* args_ vector (TLA+ sequences are 1-based, the C++ index i is args[i+1]).*)
(* The evaluator is the C++ call stack made explicit: one frame per        *)
(* evaluate() activation, one step per evaluate/param call.                *)
(***************************************************************************)
EXTENDS Integers, Sequences, FiniteSets, TLC

VARIABLES tree, pc, entry, supplied, ctx, stack, res, err, binds, call, ev, prev

\* linalg::Tensor and the Stream it is written to and read from
VARIABLES t, strm, sent, extra, d, tst, terr, op

\* a call of sql FunctionTIMESTAMP::eval
VARIABLES ts

exprVars == <<tree, pc, entry, supplied, ctx, stack, res, err, binds, call, ev, prev>>

tensorVars == <<t, strm, sent, extra, d, tst, terr, op>>

sqlVars == <<ts>>

vars == <<exprVars, tensorVars, sqlVars>>

(***************************************************************************)
(* Bounds of the model.                                                    *)
(***************************************************************************)
\* largest number of nodes of the tree eval is called on
MaxNodes == 4
\* largest number of arguments handed to eval(args) / elements of a scope
MaxArgs == 3

(***************************************************************************)
(* Expression nodes.                                                       *)
(***************************************************************************)
\* a null ExpPtr / "no value returned"
NoExp == [kind |-> "None", val |-> 0, args |-> <<>>]

scalar(n) == [kind |-> "Scalar", val |-> n, args |-> <<>>]

list(es) == [kind |-> "List", val |-> 0, args |-> es]

\* undef(): ExpPtr(new Undef())
undef == [kind |-> "Undef", val |-> 0, args |-> <<>>]

\* count(e): Count::Count pushes e as the single argument
count(e) == [kind |-> "Count", val |-> 0, args |-> <<e>>]

\* a binary Function node (the spec's add)
add(a, b) == [kind |-> "Add", val |-> 0, args |-> <<a, b>>]

zipWith(f, l0, l1) == [kind |-> "ZipWith", val |-> 0, args |-> <<f, l0, l1>>]

\* Undef::is(e)
UndefIs(e) == e.kind = "Undef"

\* Expr::arity(): the number of arguments / of elements of a list
arity(e) == Len(e.args)

\* the concrete (Undef-free) expressions a caller supplies as arguments
ArgVals ==
    { scalar(1), list(<<scalar(2)>>), list(<<scalar(2), scalar(1)>>) }

\* the leaves a tree is built from
Leaves == { undef, scalar(1), list(<<scalar(1), scalar(2)>>) }

RECURSIVE TreesOfSize(_)
TreesOfSize(n) ==
    IF n = 1 THEN Leaves
    ELSE { count(e) : e \in TreesOfSize(n - 1) }
         \cup UNION { { add(a, b) : a \in TreesOfSize(k), b \in TreesOfSize(n - 1 - k) }
                      : k \in 1..(n - 2) }

Trees == UNION { TreesOfSize(n) : n \in 1..MaxNodes }

\* the argument lists of at most n elements
ArgLists(n) == UNION { [1..k -> ArgVals] : k \in 0..n }

\* number of Undef argument slots of a tree (slots param can meet)
RECURSIVE UndefSlots(_)
RECURSIVE SlotsFrom(_, _)
SlotsFrom(as, j) ==
    IF j > Len(as) THEN 0
    ELSE (IF UndefIs(as[j]) THEN 1 ELSE UndefSlots(as[j])) + SlotsFrom(as, j + 1)

UndefSlots(e) == IF e.kind \in {"Count", "Add"} THEN SlotsFrom(e.args, 1) ELSE 0

(***************************************************************************)
(* Expr::param(i, ctx): the single substitution point.                     *)
(***************************************************************************)
Raise(what, c) == [ok |-> FALSE, e |-> NoExp, ctx |-> c, err |-> what]

Give(x, c) == [ok |-> TRUE, e |-> x, ctx |-> c, err |-> "none"]

\* param taking the scope's last element instead of its first
paramPopBack(args_, i, hasCtx, c) ==
    IF ~(i < Len(args_)) THEN Raise("ASSERT i < args_.size()", c)
    ELSE IF hasCtx /\ UndefIs(args_[i + 1])
         THEN IF c = <<>> THEN Raise("ASSERT !ctx->empty()", c)
              ELSE Give(c[Len(c)], SubSeq(c, 1, Len(c) - 1))
    ELSE Give(args_[i + 1], c)

\* param without ASSERT( !ctx->empty() ): an exhausted scope leaves the Undef
paramNoAssert(args_, i, hasCtx, c) ==
    IF ~(i < Len(args_)) THEN Raise("ASSERT i < args_.size()", c)
    ELSE IF hasCtx /\ UndefIs(args_[i + 1]) /\ c # <<>> THEN Give(Head(c), Tail(c))
    ELSE Give(args_[i + 1], c)

\* param popping the scope whatever the slot holds
paramAlwaysPop(args_, i, hasCtx, c) ==
    IF ~(i < Len(args_)) THEN Raise("ASSERT i < args_.size()", c)
    ELSE IF hasCtx /\ c # <<>> THEN Give(Head(c), Tail(c))
    ELSE Give(args_[i + 1], c)

param(args_, i, hasCtx, c) ==
    IF ~(i < Len(args_)) THEN Raise("ASSERT i < args_.size()", c)
    ELSE IF args_[i + 1] = NoExp THEN Raise("ASSERT args_[i]", c)
    ELSE IF hasCtx /\ UndefIs(args_[i + 1])
         THEN IF c = <<>> THEN Raise("ASSERT !ctx->empty()", c)
              ELSE Give(Head(c), Tail(c))
    ELSE Give(args_[i + 1], c)

(***************************************************************************)
(* linalg::Tensor<S>.  Size is an unsigned type of SizeBits bits and int a *)
(* signed one of IntBits bits (the widths are scaled down, int staying     *)
(* half as wide as Size); an array is a null flag and its elements; new[]  *)
(* of more than MaxAlloc elements throws.                                  *)
(***************************************************************************)
\* bits of an int (scaled)
IntBits == 4
\* most elements an allocation can hold
MaxAlloc == 4
\* most dimensions of a shape handed to a constructor
MaxRank == 2
\* largest entry of such a shape
MaxDim == 3
\* sizeof(S) of TensorFloat
SizeofS == 4

SizeBits == 2 * IntBits

\* conversion to int: the low IntBits bits, as a signed number
ToInt(x) ==
    LET m == x % (2 ^ IntBits) IN
    IF m >= 2 ^ (IntBits - 1) THEN m - 2 ^ IntBits ELSE m

\* conversion to Size
ToSize(x) == x % (2 ^ SizeBits)

\* std::multiplies<Size>
multiplies(a, b) == ToSize(a * b)

\* std::accumulate(begin, end, 1, multiplies<Size>()): the accumulator has
\* the type of the initial value 1, an int
RECURSIVE accumulate(_, _, _)
accumulate(shape, k, acc) ==
    IF k > Len(shape) THEN acc
    ELSE accumulate(shape, k + 1, ToInt(multiplies(ToSize(acc), shape[k])))

flatten(shape) == ToSize(accumulate(shape, 1, 1))

\* the values an element can hold
Elems == {0, 258}

Arrays(n) == [1..n -> Elems]

\* shapes whose number of elements does not fit an int
BigShapes == { <<3, 6>>, <<6, 3>> }

Shapes == UNION { [1..k -> 0..MaxDim] : k \in 0..MaxRank } \cup BigShapes

NullArray == [null |-> TRUE, data |-> <<>>]

ArrayOf(xs) == [null |-> FALSE, data |-> xs]

\* Tensor()
TensorDefault == [array |-> NullArray, size |-> 0, shape |-> <<>>, own |-> FALSE]

NoTensor == [array |-> NullArray, size |-> 0, shape |-> <<>>, own |-> FALSE,
             none |-> TRUE]

Built(x) == [ok |-> TRUE, t |-> x, err |-> "none"]

NotBuilt(what) == [ok |-> FALSE, t |-> TensorDefault, err |-> what]

\* Tensor(shape): the new array is not initialised, junk is what it holds
TensorShape(shape, junk) ==
    LET n == flatten(shape) IN
    IF ~(n > 0) THEN NotBuilt("ASSERT size() > 0")
    ELSE IF n > MaxAlloc THEN NotBuilt("bad_alloc")
    ELSE Built([array |-> ArrayOf(junk), size |-> n, shape |-> shape, own |-> TRUE])

\* Tensor(array, shape): no ownership taken
TensorData(arr, shape) ==
    LET n == flatten(shape) IN
    IF ~(n > 0) THEN NotBuilt("ASSERT size() > 0")
    ELSE IF arr.null THEN NotBuilt("ASSERT array_")
    ELSE Built([array |-> arr, size |-> n, shape |-> shape, own |-> FALSE])

\* swap(other): the four members change places
swap(a, b) == [this |-> b, other |-> a]

\* ~Tensor(): the array delete[] is called on, if any
destroy(x) == IF x.own THEN x.array ELSE NullArray

\* what a member function did: the tensor after it, whether it allocated an
\* array, and the array its temporary deleted on leaving
Done(x, a, del) == [ok |-> TRUE, t |-> x, err |-> "none", alloc |-> a, deleted |-> del]

Failed(x, what) ==
    [ok |-> FALSE, t |-> x, err |-> what, alloc |-> FALSE, deleted |-> NullArray]

\* resize(shape)
resize(x, shape, junk) ==
    IF x.size # flatten(shape)
    THEN LET m == TensorShape(shape, junk) IN
         IF m.ok
         THEN LET sw == swap(x, m.t) IN Done(sw.this, TRUE, destroy(sw.other))
         ELSE Failed(x, m.err)
    ELSE Done([x EXCEPT !.shape = shape], FALSE, NullArray)

\* Tensor(const Tensor& other)
TensorCopy(other) ==
    IF other.size > MaxAlloc THEN NotBuilt("bad_alloc")
    ELSE IF ~(other.size > 0) THEN NotBuilt("ASSERT size() > 0")
    ELSE Built([array |-> ArrayOf(SubSeq(other.array.data, 1, other.size)),
                size |-> other.size, shape |-> other.shape, own |-> TRUE])

\* operator=(other): Tensor copy(other); swap(copy)
assign(x, other) ==
    LET c == TensorCopy(other) IN
    IF c.ok
    THEN LET sw == swap(x, c.t) IN Done(sw.this, TRUE, destroy(sw.other))
    ELSE Failed(x, c.err)

\* the last member function called on the tensor
NoOp == [name |-> "none", shape |-> <<>>, ok |-> TRUE, alloc |-> FALSE,
         deleted |-> NullArray]

OpOf(name, shape, r) ==
    [name |-> name, shape |-> shape, ok |-> r.ok, alloc |-> r.alloc,
     deleted |-> r.deleted]

(***************************************************************************)
(* Stream: typed items, written at the back and read from the front.       *)
(***************************************************************************)
ULong(n) == [tag |-> "ulong", v |-> n, bytes |-> <<>>]

Blob(bs) == [tag |-> "blob", v |-> Len(bs), bytes |-> bs]

\* the bytes of one element, lowest first
ToBytes(x) == [k \in 1..SizeofS |-> (x \div (256 ^ (k - 1))) % 256]

RECURSIVE FromBytes(_)
FromBytes(bs) == IF bs = <<>> THEN 0 ELSE bs[1] + 256 * FromBytes(Tail(bs))

\* the first n elements of an array as raw bytes
RECURSIVE RawBytes(_, _)
RawBytes(data, n) ==
    IF n = 0 THEN <<>> ELSE RawBytes(data, n - 1) \o ToBytes(data[n])

\* raw bytes copied into an array of Len(bs) / sizeof(S) elements
FromRaw(bs) ==
    [i \in 1..(Len(bs) \div SizeofS) |->
        FromBytes(SubSeq(bs, (i - 1) * SizeofS + 1, i * SizeofS))]

\* s >> v for an unsigned long
ReadULong(s) ==
    IF s = <<>> \/ Head(s).tag # "ulong"
    THEN [ok |-> FALSE, v |-> 0, s |-> s]
    ELSE [ok |-> TRUE, v |-> Head(s).v, s |-> Tail(s)]

\* for (auto& v : shape_) s >> v
RECURSIVE ReadEntries(_, _, _)
ReadEntries(s, k, got) ==
    IF k = 0 THEN [ok |-> TRUE, shape |-> got, s |-> s]
    ELSE LET r == ReadULong(s) IN
         IF r.ok THEN ReadEntries(r.s, k - 1, Append(got, r.v))
         ELSE [ok |-> FALSE, shape |-> got, s |-> s]

\* s.readBlob(buffer, len): the blob must hold exactly len bytes
readBlob(s, len) ==
    IF s = <<>> \/ Head(s).tag # "blob" \/ Head(s).v # len
    THEN [ok |-> FALSE, bytes |-> <<>>, s |-> s]
    ELSE [ok |-> TRUE, bytes |-> Head(s).bytes, s |-> Tail(s)]

\* encode writing size() bytes instead of size() * sizeof(S)
encodeSizeBytes(x, s) ==
    s \o <<ULong(Len(x.shape))>>
      \o [k \in 1..Len(x.shape) |-> ULong(x.shape[k])]
      \o <<Blob(SubSeq(RawBytes(x.array.data, x.size), 1, x.size))>>

\* Tensor::encode(Stream&)
encode(x, s) ==
    s \o <<ULong(Len(x.shape))>>
      \o [k \in 1..Len(x.shape) |-> ULong(x.shape[k])]
      \o <<Blob(RawBytes(x.array.data, x.size))>>

Decoded(x, s) == [ok |-> TRUE, t |-> x, s |-> s, err |-> "none"]

NotDecoded(what, s) == [ok |-> FALSE, t |-> TensorDefault, s |-> s, err |-> what]

\* Tensor(Stream&); junk is what the array allocated by resize holds
TensorStream(s, junk) ==
    LET self == [array |-> NullArray, size |-> 0, shape |-> <<>>, own |-> TRUE]
        n == ReadULong(s) IN
    IF ~n.ok THEN NotDecoded("Stream", s)
    ELSE LET es == ReadEntries(n.s, n.v, <<>>) IN
         IF ~es.ok THEN NotDecoded("Stream", es.s)
         ELSE LET r == resize([self EXCEPT !.shape = es.shape], es.shape,
                              SubSeq(junk, 1, flatten(es.shape))) IN
              IF ~r.ok THEN NotDecoded(r.err, es.s)
              ELSE IF ~(r.t.size > 0) THEN NotDecoded("ASSERT size() > 0", es.s)
              ELSE IF r.t.array.null THEN NotDecoded("ASSERT array_", es.s)
              ELSE LET b == readBlob(es.s, r.t.size * SizeofS) IN
                   IF ~b.ok THEN NotDecoded("Stream", es.s)
                   ELSE Decoded([r.t EXCEPT !.array.data = FromRaw(b.bytes)], b.s)

(***************************************************************************)
(* sql::expression::function::FunctionTIMESTAMP.  A double is a number     *)
(* counted in halves, an infinity or a NaN; INT_MAX is that of the scaled  *)
(* int.                                                                    *)
(***************************************************************************)
INT_MAX == 2 ^ (IntBits - 1) - 1

Num(h) == [kind |-> "num", h |-> h]

NaN == [kind |-> "nan", h |-> 0]

PosInf == [kind |-> "inf", h |-> 0]

NegInf == [kind |-> "ninf", h |-> 0]

\* x >= n and x <= n for a double x and an integer n; false for a NaN
GreaterEq(x, n) == x.kind = "inf" \/ (x.kind = "num" /\ x.h >= 2 * n)

LessEq(x, n) == x.kind = "ninf" \/ (x.kind = "num" /\ x.h <= 2 * n)

\* (long long int) x, for the x >= 0 the cast is applied to
ToLongLong(x) == x.h \div 2

\* the double of a long long below 2^53, then trunc of it
FromLongLong(n) == Num(2 * n)

trunc(x) == IF x.kind = "num" /\ x.h >= 0 THEN Num(2 * (x.h \div 2)) ELSE x

\* eval clearing the flag when it produces a stamp
FunctionTIMESTAMPevalClears(indate, intime, missing) ==
    IF /\ GreaterEq(indate, 0) /\ LessEq(indate, INT_MAX)
       /\ GreaterEq(intime, 0) /\ LessEq(intime, 240000)
    THEN [out |-> trunc(FromLongLong(ToLongLong(indate) * 1000000 + ToLongLong(intime))),
          missing |-> FALSE]
    ELSE [out |-> Num(0), missing |-> TRUE]

\* FunctionTIMESTAMP::eval(bool& missing), once both arguments are evaluated
FunctionTIMESTAMPeval(indate, intime, missing) ==
    IF /\ GreaterEq(indate, 0) /\ LessEq(indate, INT_MAX)
       /\ GreaterEq(intime, 0) /\ LessEq(intime, 240000)
    THEN [out |-> trunc(FromLongLong(ToLongLong(indate) * 1000000 + ToLongLong(intime))),
          missing |-> missing]
    ELSE [out |-> Num(0), missing |-> TRUE]

\* what the two arguments may evaluate to
Specials == {NaN, PosInf, NegInf}

Dates == { Num(h) : h \in (-2)..(2 * INT_MAX + 2) } \cup Specials

Times == { Num(h) : h \in {-2, -1, 0, 1, 2, 3, 471918, 471919, 479999, 480000, 480001, 480002} }
             \cup Specials

NoStamp == [pc |-> "idle", indate |-> Num(0), intime |-> Num(0), entered |-> FALSE,
            after0 |-> FALSE, after1 |-> FALSE, missing |-> FALSE, out |-> Num(0)]

(***************************************************************************)
(* The eval entry points: a fresh context, seeded in call order.           *)
(***************************************************************************)
\* a context that outlives the call: what the last call left behind
StaleContext == ctx

\* context_t ctx;
NewContext == <<>>

\* eval() as eval(ExpPtr()): a null argument pushed
ctx0Null == Append(NewContext, NoExp)

\* eval(): nothing pushed
ctx0 == NewContext

\* eval(e): ctx.push_back(e)
ctx1(e) == Append(NewContext, e)

\* eval(a, b): ctx.push_back(a); ctx.push_back(b)
ctx2(a, b) == Append(Append(NewContext, a), b)

\* eval(args): std::copy(args.begin(), args.end(), std::back_inserter(ctx))
ctxN(as) == NewContext \o as

\* Expr::optimise(): the default is the identity
optimise(e) == e

Frame(e, p) == [node |-> e, path |-> p, i |-> 0, vals |-> <<>>]

NoCall == [i |-> 0, hasCtx |-> FALSE, args |-> <<>>, before |-> <<>>,
           after |-> <<>>, ret |-> NoExp, ok |-> TRUE, made |-> FALSE]

CallOf(as, i, h, c, r) ==
    [i |-> i, hasCtx |-> h, args |-> as, before |-> c, after |-> r.ctx,
     ret |-> r.e, ok |-> r.ok, made |-> TRUE]

NoEv == [node |-> NoExp, ret |-> NoExp, raised |-> FALSE, made |-> FALSE]

EvOf(n, r, x) == [node |-> n, ret |-> r, raised |-> x, made |-> TRUE]

Idle == pc \in {"idle", "returned", "failed"}

Enter(how, as, c) ==
    /\ Idle
    /\ pc' = "eval"
    /\ entry' = how
    /\ supplied' = as
    /\ ctx' = c
    /\ stack' = <<Frame(optimise(tree), <<>>)>>
    /\ res' = NoExp
    /\ err' = "none"
    /\ binds' = <<>>
    /\ call' = NoCall
    /\ ev' = NoEv
    /\ prev' = IF pc = "idle" THEN "none" ELSE IF ctx # <<>> THEN "leftover" ELSE "clean"
    /\ UNCHANGED <<tree, tensorVars, sqlVars>>

Eval0 == Enter("eval0", <<>>, ctx0)

Eval1 == \E e \in ArgVals : Enter("eval1", <<e>>, ctx1(e))

Eval2 == \E a \in ArgVals, b \in ArgVals : Enter("eval2", <<a, b>>, ctx2(a, b))

EvalN == \E as \in ArgLists(MaxArgs) : Enter("evalN", as, ctxN(as))

\* nothing has been called yet
Start ==
    /\ pc = "idle"
    /\ entry = "none"
    /\ supplied = <<>>
    /\ ctx = <<>>
    /\ stack = <<>>
    /\ res = NoExp
    /\ err = "none"
    /\ binds = <<>>
    /\ call = NoCall
    /\ ev = NoEv
    /\ prev = "none"
    /\ t = TensorDefault
    /\ strm = <<>>
    /\ sent = NoTensor
    /\ extra = <<>>
    /\ d = NoTensor
    /\ tst = "build"
    /\ terr = "none"
    /\ op = NoOp
    /\ ts = NoStamp

Init == tree \in Trees /\ Start

(***************************************************************************)
(* evaluate(ctx), one activation per frame.                                *)
(***************************************************************************)
Top == stack[Len(stack)]

Running == pc = "eval" /\ stack # <<>>

\* a frame returns v to its caller: the parent frame, or eval itself
Deliver(v) ==
    LET rest == SubSeq(stack, 1, Len(stack) - 1) IN
    IF rest = <<>>
    THEN stack' = <<>> /\ res' = v
    ELSE stack' = [rest EXCEPT ![Len(rest)].vals = Append(@, v)] /\ res' = res

\* an exception unwinds every frame; eval returns nothing
Throw(what) ==
    /\ pc' = "failed"
    /\ err' = what
    /\ stack' = <<>>
    /\ res' = NoExp

\* the bindings made so far, with the one this param call made: what it
\* returned for an Undef slot
Bound(r, as, i, slot) ==
    IF r.ok /\ UndefIs(as[i + 1]) THEN Append(binds, [slot |-> slot, e |-> r.e])
    ELSE binds

\* Value::evaluate: a value evaluates to itself
ValueEvaluate(node) == node

\* Undef::evaluate returning a null pointer
UndefEvaluateNull(node) == NoExp

\* Undef::evaluate: static_pointer_cast<Value>(shared_from_this())
UndefEvaluate(node) == node

\* Count::evaluate taking its own arity, not its argument's
CountEvaluateOwnArity(node, c) ==
    LET r == param(node.args, 0, TRUE, c) IN
    [p |-> r, val |-> IF r.ok THEN scalar(arity(node)) ELSE NoExp]

\* Count::evaluate: scalar(param(0, ctx)->arity())
CountEvaluate(node, c) ==
    LET r == param(node.args, 0, TRUE, c) IN
    [p |-> r, val |-> IF r.ok THEN scalar(arity(r.e)) ELSE NoExp]

\* a binary Function applied to its evaluated operands
AddApply(vals) ==
    IF vals[1].kind = "Scalar" /\ vals[2].kind = "Scalar"
    THEN [ok |-> TRUE, val |-> scalar(vals[1].val + vals[2].val)]
    ELSE [ok |-> FALSE, val |-> NoExp]

EvaluateValue ==
    /\ Running
    /\ Top.node.kind \in {"Scalar", "List"}
    /\ Deliver(ValueEvaluate(Top.node))
    /\ ev' = EvOf(Top.node, ValueEvaluate(Top.node), FALSE)
    /\ call' = NoCall
    /\ UNCHANGED <<tree, pc, entry, supplied, ctx, err, binds, prev, tensorVars, sqlVars>>

EvaluateUndef ==
    /\ Running
    /\ Top.node.kind = "Undef"
    /\ Deliver(UndefEvaluate(Top.node))
    /\ ev' = EvOf(Top.node, UndefEvaluate(Top.node), FALSE)
    /\ call' = NoCall
    /\ UNCHANGED <<tree, pc, entry, supplied, ctx, err, binds, prev, tensorVars, sqlVars>>

EvaluateCount ==
    /\ Running
    /\ Top.node.kind = "Count"
    /\ LET r == CountEvaluate(Top.node, ctx) IN
       /\ call' = CallOf(Top.node.args, 0, TRUE, ctx, r.p)
       /\ ctx' = r.p.ctx
       /\ binds' = Bound(r.p, Top.node.args, 0, Append(Top.path, 0))
       /\ ev' = EvOf(Top.node, r.val, ~r.p.ok)
       /\ IF r.p.ok
          THEN Deliver(r.val) /\ UNCHANGED <<pc, err>>
          ELSE Throw(r.p.err)
    /\ UNCHANGED <<tree, entry, supplied, prev, tensorVars, sqlVars>>

\* Function::evaluate fetches operand i through param and evaluates it
FunctionParam ==
    /\ Running
    /\ Top.node.kind = "Add"
    /\ Top.i < arity(Top.node)
    /\ LET r == param(Top.node.args, Top.i, TRUE, ctx)
           slot == Append(Top.path, Top.i) IN
       /\ call' = CallOf(Top.node.args, Top.i, TRUE, ctx, r)
       /\ ctx' = r.ctx
       /\ binds' = Bound(r, Top.node.args, Top.i, slot)
       /\ IF r.ok
          THEN /\ stack' = Append([stack EXCEPT ![Len(stack)].i = @ + 1],
                                  Frame(r.e, slot))
               /\ UNCHANGED <<pc, err, res>>
               /\ ev' = NoEv
          ELSE /\ Throw(r.err)
               /\ ev' = EvOf(Top.node, NoExp, TRUE)
    /\ UNCHANGED <<tree, entry, supplied, prev, tensorVars, sqlVars>>

FunctionApply ==
    /\ Running
    /\ Top.node.kind = "Add"
    /\ Top.i = arity(Top.node)
    /\ LET r == AddApply(Top.vals) IN
       /\ ev' = EvOf(Top.node, r.val, ~r.ok)
       /\ IF r.ok
          THEN Deliver(r.val) /\ UNCHANGED <<pc, err>>
          ELSE Throw("TypeMismatch")
    /\ call' = NoCall
    /\ UNCHANGED <<tree, entry, supplied, ctx, binds, prev, tensorVars, sqlVars>>

\* eval(a, b) returning without the assertion
AssertsEmptyButEval2(how) == how \in {"eval1", "evalN"}

\* which entry points ASSERT( ctx.empty() ) after evaluate returns
AssertsEmpty(how) == how \in {"eval1", "eval2", "evalN"}

\* evaluate has returned res to eval
EvalReturn ==
    /\ pc = "eval"
    /\ stack = <<>>
    /\ IF AssertsEmpty(entry) /\ ctx # <<>>
       THEN Throw("ASSERT ctx.empty()")
       ELSE pc' = "returned" /\ UNCHANGED <<err, stack, res>>
    /\ call' = NoCall
    /\ ev' = NoEv
    /\ UNCHANGED <<tree, entry, supplied, ctx, binds, prev, tensorVars, sqlVars>>

(***************************************************************************)
(* evaluate(ctx) run to its return, for the calls an evaluation makes      *)
(* itself: the operand of a ZipWith, and f->eval(a, b).                    *)
(***************************************************************************)
RECURSIVE evaluate(_, _)
evaluate(e, c) ==
    IF e.kind \in {"Scalar", "List"} THEN Give(ValueEvaluate(e), c)
    ELSE IF e.kind = "Undef" THEN Give(UndefEvaluate(e), c)
    ELSE IF e.kind = "Count"
    THEN LET r == CountEvaluate(e, c) IN
         IF r.p.ok THEN Give(r.val, r.p.ctx) ELSE r.p
    ELSE IF e.kind = "Add"
    THEN LET p0 == param(e.args, 0, TRUE, c) IN
         IF ~p0.ok THEN p0
         ELSE LET v0 == evaluate(p0.e, p0.ctx) IN
         IF ~v0.ok THEN v0
         ELSE LET p1 == param(e.args, 1, TRUE, v0.ctx) IN
         IF ~p1.ok THEN p1
         ELSE LET v1 == evaluate(p1.e, p1.ctx) IN
         IF ~v1.ok THEN v1
         ELSE LET a == AddApply(<<v0.e, v1.e>>) IN
              IF a.ok THEN Give(a.val, v1.ctx) ELSE Raise("TypeMismatch", v1.ctx)
    ELSE Raise("NotImplemented", c)

\* f->eval(a, b)
eval2(f, a, b) ==
    LET r == evaluate(optimise(f), ctx2(a, b)) IN
    IF ~r.ok THEN r
    ELSE IF AssertsEmpty("eval2") /\ r.ctx # <<>>
    THEN Raise("ASSERT ctx.empty()", r.ctx)
    ELSE r

(***************************************************************************)
(* ZipWith: f applied pairwise to the elements of two lists.               *)
(***************************************************************************)
\* most elements of a list zipped
MaxZip == 2

ZipElems == { scalar(1), scalar(2), list(<<scalar(2)>>) }

ZipLists == { list(es) : es \in UNION { [1..k -> ZipElems] : k \in 0..MaxZip } }
                \cup { scalar(1) }

ZipFs == { add(undef, undef), add(undef, scalar(1)), add(count(undef), undef) }

ZipTrees == { zipWith(f, l0, l1) : f \in ZipFs, l0 \in ZipLists, l1 \in ZipLists }

NoLists(what, c) == [ok |-> FALSE, l0 |-> NoExp, l1 |-> NoExp, ctx |-> c, err |-> what]

\* l0 and l1 evaluated; both must be lists, of one length
ZipWithOperands(node, c) ==
    LET p1 == param(node.args, 1, TRUE, c) IN
    IF ~p1.ok THEN NoLists(p1.err, p1.ctx)
    ELSE LET v1 == evaluate(p1.e, p1.ctx) IN
    IF ~v1.ok THEN NoLists(v1.err, v1.ctx)
    ELSE LET p2 == param(node.args, 2, TRUE, v1.ctx) IN
    IF ~p2.ok THEN NoLists(p2.err, p2.ctx)
    ELSE LET v2 == evaluate(p2.e, p2.ctx) IN
    IF ~v2.ok THEN NoLists(v2.err, v2.ctx)
    ELSE IF v1.e.kind # "List" \/ v2.e.kind # "List" THEN NoLists("TypeMismatch", v2.ctx)
    ELSE IF arity(v1.e) # arity(v2.e) THEN NoLists("TypeMismatch", v2.ctx)
    ELSE [ok |-> TRUE, l0 |-> v1.e, l1 |-> v2.e, ctx |-> v2.ctx, err |-> "none"]

\* the pair taken from the wrong end of l1
ZipWithPairReversed(l0, l1, k) == <<l0.args[k], l1.args[arity(l1) + 1 - k]>>

\* the k-th pair: corresponding elements
ZipWithPair(l0, l1, k) == <<l0.args[k], l1.args[k]>>

\* countable()
ZipWithCountable(node) == TRUE

\* count(): the cardinality of l0
ZipWithCount(node) == arity(node.args[2])

\* a ZipWith frame holds the two lists, then the results so far
ZipWithLists ==
    /\ Running
    /\ Top.node.kind = "ZipWith"
    /\ Top.vals = <<>>
    /\ LET r == ZipWithOperands(Top.node, ctx) IN
       /\ ctx' = r.ctx
       /\ IF r.ok
          THEN /\ stack' = [stack EXCEPT ![Len(stack)].vals = <<r.l0, r.l1>>]
               /\ ev' = NoEv
               /\ UNCHANGED <<pc, err, res>>
          ELSE /\ Throw(r.err)
               /\ ev' = EvOf(Top.node, NoExp, TRUE)
    /\ call' = NoCall
    /\ UNCHANGED <<tree, entry, supplied, binds, prev, tensorVars, sqlVars>>

ZipWithElem ==
    /\ Running
    /\ Top.node.kind = "ZipWith"
    /\ Len(Top.vals) >= 2
    /\ Len(Top.vals) - 2 < arity(Top.vals[1])
    /\ LET k == Len(Top.vals) - 1
           f == param(Top.node.args, 0, TRUE, ctx)
           ab == ZipWithPair(Top.vals[1], Top.vals[2], k) IN
       /\ ctx' = f.ctx
       /\ IF ~f.ok
          THEN Throw(f.err) /\ ev' = EvOf(Top.node, NoExp, TRUE)
          ELSE LET r == eval2(f.e, ab[1], ab[2]) IN
               IF r.ok
               THEN /\ stack' = [stack EXCEPT ![Len(stack)].vals = Append(@, r.e)]
                    /\ ev' = NoEv
                    /\ UNCHANGED <<pc, err, res>>
               ELSE Throw(r.err) /\ ev' = EvOf(Top.node, NoExp, TRUE)
    /\ call' = NoCall
    /\ UNCHANGED <<tree, entry, supplied, binds, prev, tensorVars, sqlVars>>

ZipWithReturn ==
    /\ Running
    /\ Top.node.kind = "ZipWith"
    /\ Len(Top.vals) >= 2
    /\ Len(Top.vals) - 2 = arity(Top.vals[1])
    /\ LET out == list(SubSeq(Top.vals, 3, Len(Top.vals))) IN
       /\ Deliver(out)
       /\ ev' = EvOf(Top.node, out, FALSE)
    /\ call' = NoCall
    /\ UNCHANGED <<tree, pc, entry, supplied, ctx, err, binds, prev, tensorVars, sqlVars>>

\* a caller asks how many results there will be
ZipWithCountQuery ==
    /\ pc = "idle"
    /\ tree.kind = "ZipWith"
    /\ ZipWithCountable(tree)
    /\ pc' = "returned"
    /\ entry' = "count"
    /\ res' = scalar(ZipWithCount(tree))
    /\ UNCHANGED <<tree, supplied, ctx, stack, err, binds, call, ev, prev, tensorVars, sqlVars>>

ZipWithNext ==
    \/ Eval0 \/ ZipWithLists \/ ZipWithElem \/ ZipWithReturn \/ EvalReturn
    \/ ZipWithCountQuery

ZipWithInit == tree \in ZipTrees /\ Start

ZipWithSpec == ZipWithInit /\ [][ZipWithNext]_vars

(***************************************************************************)
(* Calls made on the tree outside an evaluation.                           *)
(***************************************************************************)
EvalEntries == {"eval0", "eval1", "eval2", "evalN"}

\* any caller's param(i, ctx) on the tree, with a scope of its own or none
ParamDirect ==
    /\ pc = "idle"
    /\ \E i \in 0..arity(tree), h \in BOOLEAN, c \in ArgLists(MaxArgs) :
         /\ h \/ c = <<>>
         /\ LET r == param(tree.args, i, h, c) IN
            /\ pc' = IF r.ok THEN "returned" ELSE "failed"
            /\ entry' = "param"
            /\ supplied' = c
            /\ ctx' = r.ctx
            /\ res' = r.e
            /\ err' = r.err
            /\ call' = CallOf(tree.args, i, h, c, r)
    /\ stack' = <<>>
    /\ binds' = <<>>
    /\ ev' = NoEv
    /\ UNCHANGED <<tree, prev, tensorVars, sqlVars>>

\* Count::cloneWith(a): NOTIMP
CountCloneWith(node, a) == [ok |-> FALSE, e |-> NoExp, err |-> "NotImplemented"]

CloneWith ==
    /\ pc = "idle"
    /\ tree.kind = "Count"
    /\ \E a \in [1..1 -> ArgVals \cup {undef}] :
         LET r == CountCloneWith(tree, a) IN
         /\ pc' = IF r.ok THEN "returned" ELSE "failed"
         /\ entry' = "cloneWith"
         /\ supplied' = a
         /\ res' = r.e
         /\ err' = r.err
    /\ ctx' = <<>>
    /\ stack' = <<>>
    /\ binds' = <<>>
    /\ call' = NoCall
    /\ ev' = NoEv
    /\ UNCHANGED <<tree, prev, tensorVars, sqlVars>>

(***************************************************************************)
(* param(i, p): in-place replacement of argument i.                        *)
(***************************************************************************)
Kept(args_, what) == [ok |-> FALSE, args |-> args_, err |-> what]

Replaced(args_) == [ok |-> TRUE, args |-> args_, err |-> "none"]

\* param(i, p) without ASSERT( p )
paramSetAcceptsNull(args_, i, p) ==
    IF ~(i < Len(args_)) THEN Kept(args_, "ASSERT i < args_.size()")
    ELSE IF p # args_[i + 1] THEN Replaced([args_ EXCEPT ![i + 1] = p])
    ELSE Replaced(args_)

\* Expr::param(const size_t& i, ExpPtr p)
paramSet(args_, i, p) ==
    IF ~(i < Len(args_)) THEN Kept(args_, "ASSERT i < args_.size()")
    ELSE IF p = NoExp THEN Kept(args_, "ASSERT p")
    ELSE IF p # args_[i + 1] THEN Replaced([args_ EXCEPT ![i + 1] = p])
    ELSE Replaced(args_)

\* what a caller may put in a slot: values, a placeholder, a null pointer,
\* or an expression the node already holds
SetVals(node) == ArgVals \cup {undef, NoExp} \cup { node.args[j] : j \in 1..arity(node) }

ParamSet ==
    /\ Idle
    /\ \E i \in 0..arity(tree), p \in SetVals(tree) :
         LET r == paramSet(tree.args, i, p) IN
         /\ tree' = [tree EXCEPT !.args = r.args]
         /\ pc' = IF r.ok THEN "returned" ELSE "failed"
         /\ entry' = "paramSet"
         /\ supplied' = <<p>>
         /\ err' = r.err
         /\ call' = [NoCall EXCEPT !.i = i]
    /\ ctx' = <<>>
    /\ stack' = <<>>
    /\ res' = NoExp
    /\ binds' = <<>>
    /\ ev' = NoEv
    /\ UNCHANGED <<prev, tensorVars, sqlVars>>

ParamSetNext == ParamSet

ParamSetSpec == Init /\ [][ParamSetNext]_vars

Step ==
    \/ EvaluateValue \/ EvaluateUndef \/ EvaluateCount
    \/ FunctionParam \/ FunctionApply
    \/ EvalReturn

Next ==
    \/ Eval0 \/ Eval1 \/ Eval2 \/ EvalN
    \/ ParamDirect \/ CloneWith
    \/ EvaluateValue \/ EvaluateUndef \/ EvaluateCount
    \/ FunctionParam \/ FunctionApply
    \/ EvalReturn

Spec == Init /\ [][Next]_vars

\* eval() alone, run to completion: a call on a thread runs until it returns
Eval0Next == Eval0 \/ Step

Eval0Spec == Init /\ [][Eval0Next]_vars /\ WF_vars(Step)

(***************************************************************************)
(* A tensor is built, written to a stream (which may go on with other      *)
(* data) and a tensor is constructed from that stream.                     *)
(***************************************************************************)
\* the junk a new array of n elements may hold
Junk(n) == Arrays(IF n > 0 /\ n <= MaxAlloc THEN n ELSE 0)

Construct(r) ==
    /\ t' = IF r.ok THEN r.t ELSE t
    /\ terr' = r.err
    /\ op' = NoOp
    /\ UNCHANGED <<strm, sent, extra, d, tst, exprVars, sqlVars>>

NewFromShape ==
    /\ tst = "build"
    /\ \E shape \in Shapes : \E junk \in Junk(flatten(shape)) :
         Construct(TensorShape(shape, junk))

\* the caller's array holds the elements the shape asks for
NewFromData ==
    /\ tst = "build"
    /\ \E shape \in { sh \in Shapes : flatten(sh) <= MaxAlloc } :
         \E arr \in Arrays(flatten(shape)) :
             Construct(TensorData(ArrayOf(arr), shape))

Encode ==
    /\ tst = "build"
    /\ strm' = encode(t, strm)
    /\ sent' = t
    /\ tst' = "encoded"
    /\ UNCHANGED <<t, extra, d, terr, op, exprVars, sqlVars>>

\* something else is written to the stream after the tensor
WriteOther ==
    /\ tst = "encoded"
    /\ extra = <<>>
    /\ \E x \in {ULong(1), Blob(<<1>>)} :
         /\ strm' = Append(strm, x)
         /\ extra' = <<x>>
    /\ UNCHANGED <<t, sent, d, tst, terr, op, exprVars, sqlVars>>

Decode ==
    /\ tst = "encoded"
    /\ \E junk \in Arrays(MaxAlloc) :
         LET r == TensorStream(strm, junk) IN
         /\ d' = IF r.ok THEN r.t ELSE NoTensor
         /\ strm' = r.s
         /\ terr' = r.err
         /\ tst' = IF r.ok THEN "decoded" ELSE "failed"
    /\ UNCHANGED <<t, sent, extra, op, exprVars, sqlVars>>

TensorNext == NewFromShape \/ NewFromData \/ Encode \/ WriteOther \/ Decode

\* no expression is under evaluation while the tensor is exercised
TensorInit == Init /\ tree = scalar(1)

TensorSpec == TensorInit /\ [][TensorNext]_vars

(***************************************************************************)
(* A tensor is constructed, resized, swapped and assigned to.              *)
(***************************************************************************)
\* the tensors another part of the program may hold
Others ==
    {TensorDefault}
        \cup { TensorShape(sh, [i \in 1..flatten(sh) |-> e]).t :
                 sh \in { x \in Shapes : flatten(x) > 0 /\ flatten(x) <= MaxAlloc },
                 e \in Elems }
        \cup { TensorData(ArrayOf([i \in 1..flatten(sh) |-> e]), sh).t :
                 sh \in { x \in Shapes : flatten(x) > 0 /\ flatten(x) <= MaxAlloc },
                 e \in Elems }

Apply(name, shape, r) ==
    /\ t' = r.t
    /\ terr' = r.err
    /\ op' = OpOf(name, shape, r)
    /\ UNCHANGED <<strm, sent, extra, d, tst, exprVars, sqlVars>>

NewDefault ==
    /\ tst = "build"
    /\ Apply("default", <<>>, Done(TensorDefault, FALSE, NullArray))

Resize ==
    /\ tst = "build"
    /\ \E shape \in Shapes : \E junk \in Junk(flatten(shape)) :
         Apply("resize", shape, resize(t, shape, junk))

Swap ==
    /\ tst = "build"
    /\ \E other \in Others :
         Apply("swap", <<>>, Done(swap(t, other).this, FALSE, NullArray))

CopyConstruct ==
    /\ tst = "build"
    /\ \E other \in Others :
         LET c == TensorCopy(other) IN
         Apply("copy", <<>>, IF c.ok THEN Done(c.t, TRUE, NullArray) ELSE Failed(t, c.err))

Assign ==
    /\ tst = "build"
    /\ \E other \in Others \cup {t} :
         Apply("assign", <<>>, assign(t, other))

TensorOpsNext ==
    \/ NewDefault \/ NewFromShape \/ NewFromData \/ CopyConstruct
    \/ Resize \/ Swap \/ Assign

TensorOpsSpec == TensorInit /\ [][TensorOpsNext]_vars

(***************************************************************************)
(* FunctionTIMESTAMP::eval, statement by statement.                        *)
(***************************************************************************)
\* the caller's flag may be set already
TimestampCall ==
    /\ ts.pc \in {"idle", "done"}
    /\ \E m \in BOOLEAN :
         ts' = [NoStamp EXCEPT !.pc = "called", !.entered = m, !.missing = m]
    /\ UNCHANGED <<exprVars, tensorVars>>

\* args_[0]->eval(missing): a value, and the flag set or left as it is
TimestampArg0 ==
    /\ ts.pc = "called"
    /\ \E v \in Dates, m \in {ts.missing, TRUE} :
         ts' = [ts EXCEPT !.pc = "arg0", !.indate = v, !.missing = m, !.after0 = m]
    /\ UNCHANGED <<exprVars, tensorVars>>

\* args_[1]->eval(missing)
TimestampArg1 ==
    /\ ts.pc = "arg0"
    /\ \E v \in Times, m \in {ts.missing, TRUE} :
         ts' = [ts EXCEPT !.pc = "arg1", !.intime = v, !.missing = m, !.after1 = m]
    /\ UNCHANGED <<exprVars, tensorVars>>

TimestampMerge ==
    /\ ts.pc = "arg1"
    /\ LET r == FunctionTIMESTAMPeval(ts.indate, ts.intime, ts.missing) IN
       ts' = [ts EXCEPT !.pc = "done", !.out = r.out, !.missing = r.missing]
    /\ UNCHANGED <<exprVars, tensorVars>>

TimestampNext == TimestampCall \/ TimestampArg0 \/ TimestampArg1 \/ TimestampMerge

TimestampSpec == TensorInit /\ [][TimestampNext]_vars

(***************************************************************************)
(* Helpers of the properties.                                              *)
(***************************************************************************)
\* the node at a path of (0-based) argument indices
RECURSIVE NodeAt(_, _)
NodeAt(e, path) ==
    IF path = <<>> THEN e
    ELSE IF path[1] < Len(e.args) THEN NodeAt(e.args[path[1] + 1], Tail(path))
    ELSE NoExp

Min(a, b) == IF a < b THEN a ELSE b

\* slot p comes before slot q in a left-to-right, depth-first traversal
LexLess(p, q) ==
    \E k \in 1..Min(Len(p), Len(q)) :
        /\ p[k] < q[k]
        /\ \A j \in 1..(k - 1) : p[j] = q[j]

InEval == entry \in EvalEntries

Finished == pc \in {"returned", "failed"}

\* the slot the last param call looked at holds an Undef
CallAtUndef == call.i < Len(call.args) /\ UndefIs(call.args[call.i + 1])

(***************************************************************************)
(* C1: eval seeds the scope in call order, and the i-th Undef slot that    *)
(* param reaches (left to right, depth first) is bound to the i-th         *)
(* supplied argument; the scope is always the not yet consumed suffix of   *)
(* the supplied arguments; eval(a, b) binds as eval([a, b]).               *)
(***************************************************************************)
C1_BindsInCallOrder ==
    InEval =>
        /\ Len(binds) <= Len(supplied)
        /\ \A j \in 1..Len(binds) :
               /\ binds[j].e = supplied[j]
               /\ NodeAt(tree, binds[j].slot) = undef
        /\ \A j \in 1..(Len(binds) - 1) : LexLess(binds[j].slot, binds[j + 1].slot)
        /\ ctx = SubSeq(supplied, Len(binds) + 1, Len(supplied))

C1_Witness ==
    /\ entry = "eval2"
    /\ pc = "returned"
    /\ Len(binds) = 2
    /\ UndefSlots(tree) = 2
    /\ binds[1].e # binds[2].e
    /\ Len(binds[1].slot) = 2

(***************************************************************************)
(* C2 as stated: a tree with k Undef argument slots evaluated with fewer   *)
(* than k arguments fails at param's empty-scope assertion and returns no  *)
(* Value.                                                                  *)
(***************************************************************************)
C2_FewerArgsAlwaysFail ==
    (InEval /\ Finished /\ Len(supplied) < UndefSlots(tree)) =>
        /\ pc = "failed"
        /\ err = "ASSERT !ctx->empty()"
        /\ res = NoExp

(***************************************************************************)
(* C2 amended: when param meets an Undef slot with an empty scope (the     *)
(* evaluation reaches more Undef slots than arguments were supplied), the  *)
(* evaluation fails at that call, returns no Value and the failing call    *)
(* pops nothing; that assertion fails in no other case.                    *)
(***************************************************************************)
C2_EmptyScopeAtUndefFails ==
    InEval =>
        /\ (call.made /\ call.hasCtx /\ CallAtUndef /\ call.before = <<>>) =>
               /\ pc = "failed"
               /\ err = "ASSERT !ctx->empty()"
               /\ res = NoExp
               /\ stack = <<>>
               /\ call.after = <<>> /\ ctx = <<>>
               /\ Len(binds) = Len(supplied)
               /\ Len(supplied) < UndefSlots(tree)
        /\ err = "ASSERT !ctx->empty()" =>
               /\ call.made /\ call.hasCtx /\ CallAtUndef /\ call.before = <<>>
               /\ pc = "failed"

C2_Witness ==
    /\ entry = "eval1"
    /\ pc = "failed"
    /\ err = "ASSERT !ctx->empty()"
    /\ Len(binds) = 1
    /\ call.made /\ call.before = <<>>

(***************************************************************************)
(* C3 as stated: every entry point, eval() included, asserts the scope     *)
(* empty after evaluate returns; a returned Value means an empty scope; a  *)
(* call with more arguments than Undef slots fails with that assertion.    *)
(***************************************************************************)
C3_EveryEntryAsserts ==
    InEval =>
        /\ AssertsEmpty(entry)
        /\ pc = "returned" => ctx = <<>>
        /\ (Finished /\ Len(supplied) > UndefSlots(tree)) =>
               pc = "failed" /\ err = "ASSERT ctx.empty()"

(***************************************************************************)
(* C3 amended: eval(a), eval(a, b) and eval(args) assert the scope empty   *)
(* after evaluate returns; eval() asserts nothing, its scope being empty   *)
(* from creation to return. Whenever an eval call returns a Value its      *)
(* scope is empty, and a call with more arguments than the tree has Undef  *)
(* slots returns no Value: once evaluate has returned it fails with the    *)
(* scope-not-empty assertion.                                              *)
(***************************************************************************)
C3_ReturnedMeansScopeEmpty ==
    InEval =>
        /\ pc = "returned" => (ctx = <<>> /\ res # NoExp)
        /\ entry = "eval0" => (ctx = <<>> /\ err # "ASSERT ctx.empty()")
        /\ (Finished /\ Len(supplied) > UndefSlots(tree)) =>
               /\ pc = "failed"
               /\ res = NoExp
               /\ ~ev.raised => err = "ASSERT ctx.empty()"
        /\ err = "ASSERT ctx.empty()" =>
               (pc = "failed" /\ ctx # <<>> /\ res = NoExp /\ entry # "eval0")

C3_Witness ==
    /\ entry = "eval2"
    /\ pc = "failed"
    /\ err = "ASSERT ctx.empty()"
    /\ Len(binds) = 1
    /\ Len(ctx) = 1

(***************************************************************************)
(* C4: eval() of a tree without Undef argument slots terminates, and in    *)
(* every state of that evaluation the scope is empty: no param call        *)
(* removes or adds an element.                                             *)
(***************************************************************************)
C4_NoUndefNeverTouchesScope ==
    /\ []((entry = "eval0" /\ UndefSlots(tree) = 0) =>
            /\ ctx = <<>>
            /\ binds = <<>>
            /\ call.made => (call.before = <<>> /\ call.after = <<>>))
    /\ ((pc = "eval" /\ UndefSlots(tree) = 0) ~> Finished)

C4_Witness ==
    /\ entry = "eval0"
    /\ pc = "returned"
    /\ UndefSlots(tree) = 0
    /\ tree.kind = "Add"
    /\ res.kind = "Scalar"

(***************************************************************************)
(* C5: param(i, scope) with i < args.size(): at an Undef slot with a       *)
(* (non-empty) scope it returns the scope's front and removes exactly that *)
(* element, the rest keeping its order; otherwise (no Undef there, or no   *)
(* scope) it returns args[i] and leaves the scope alone. args is never     *)
(* changed, and i >= args.size() fails changing nothing.                   *)
(***************************************************************************)
C5_ParamEffect ==
    call.made =>
        IF call.i < Len(call.args)
        THEN IF call.hasCtx /\ UndefIs(call.args[call.i + 1])
             THEN call.before # <<>> =>
                      /\ call.ok
                      /\ call.ret = call.before[1]
                      /\ call.after = SubSeq(call.before, 2, Len(call.before))
             ELSE /\ call.ok
                  /\ call.ret = call.args[call.i + 1]
                  /\ call.after = call.before
        ELSE ~call.ok /\ call.ret = NoExp /\ call.after = call.before

C5_ParamFrame ==
    /\ []C5_ParamEffect
    /\ [][call'.made => (tree' = tree /\ (entry' = "param" => call'.args = tree.args))]_vars

C5_Witness ==
    /\ entry = "param"
    /\ call.made /\ call.hasCtx /\ CallAtUndef
    /\ Len(call.before) = 3
    /\ call.before[1] # call.before[3]
    /\ call.ok

(***************************************************************************)
(* C6 as stated: evaluating an Undef node that was never substituted       *)
(* raises an error at that node and yields no Value.                       *)
(***************************************************************************)
C6_UndefEvaluateRaises ==
    (ev.made /\ ev.node.kind = "Undef") => (ev.raised /\ ev.ret = NoExp)

(***************************************************************************)
(* C6 amended: evaluating an Undef node that was never substituted raises  *)
(* nothing at that node: Undef::evaluate returns the node itself as the    *)
(* Value, and the evaluation goes on.                                      *)
(***************************************************************************)
C6_UndefEvaluatesToItself ==
    (ev.made /\ ev.node.kind = "Undef") =>
        /\ ~ev.raised
        /\ ev.ret = ev.node
        /\ pc = "eval" /\ err = "none"
        /\ stack = <<>> => res = ev.node

C6_Witness ==
    /\ ev.made /\ ev.node.kind = "Undef"
    /\ entry = "eval0"
    /\ res = undef

(***************************************************************************)
(* C7: evaluating count(e) for a list e of length n returns Scalar n,      *)
(* whatever the elements are; when Count's slot is an Undef the list is    *)
(* the scope's front and exactly that one element is consumed.             *)
(***************************************************************************)
C7_CountIsListLength ==
    (ev.made /\ ev.node.kind = "Count" /\ call.made /\ call.ok
       /\ call.ret.kind = "List") =>
        /\ ~ev.raised
        /\ ev.ret = scalar(Len(call.ret.args))
        /\ CallAtUndef =>
               /\ call.ret = call.before[1]
               /\ call.after = SubSeq(call.before, 2, Len(call.before))
        /\ ~CallAtUndef => (call.ret = ev.node.args[1] /\ call.after = call.before)

C7_Witness ==
    /\ ev.made /\ ev.node = count(undef)
    /\ call.ret = list(<<scalar(2), scalar(1)>>)
    /\ ev.ret = scalar(2)
    /\ Len(call.before) = 2 /\ Len(call.after) = 1

(***************************************************************************)
(* C8: Count::cloneWith(newArgs) with one new argument returns a new Count *)
(* over newArgs[0] and does not signal "not implemented".                  *)
(***************************************************************************)
C8_CloneWithRebuildsCount ==
    (entry = "cloneWith" /\ Len(supplied) = 1) =>
        /\ pc = "returned"
        /\ res = count(supplied[1])
        /\ err # "NotImplemented"

(***************************************************************************)
(* C9: a top-level eval leaves the tree's args unchanged and starts from a *)
(* scope created for that call: whatever an earlier call did or left       *)
(* behind, a call starts in the state its tree and its own arguments       *)
(* determine, and binds Undef slots from its own arguments only.           *)
(***************************************************************************)
C9_FreshScopePerCall ==
    /\ [][(pc # "eval" /\ pc' = "eval") =>
            /\ ctx' = supplied'
            /\ stack' = <<Frame(tree, <<>>)>>
            /\ binds' = <<>> /\ res' = NoExp /\ err' = "none"]_vars
    /\ [][InEval' => tree' = tree]_vars
    /\ [](InEval => \A j \in 1..Len(binds) :
                       j <= Len(supplied) /\ binds[j].e = supplied[j])

C9_Witness ==
    /\ prev = "leftover"
    /\ InEval
    /\ pc = "returned"
    /\ Len(binds) = 2
    /\ binds[1].e # binds[2].e

(***************************************************************************)
(* C10: for a tensor with size() > 0, the stream encode produces holds the *)
(* shape length, each shape entry and one blob of size() * sizeof(S)       *)
(* bytes; constructing a Tensor from it succeeds, gives the same shape,    *)
(* the same size and element-wise equal contents, and consumes exactly     *)
(* those items.                                                            *)
(***************************************************************************)
C10_EncodeDecodeRoundTrip ==
    (tst # "build" /\ sent.size > 0) =>
        /\ tst = "encoded" =>
               /\ Len(strm) = Len(sent.shape) + 2 + Len(extra)
               /\ strm[1] = ULong(Len(sent.shape))
               /\ \A k \in 1..Len(sent.shape) : strm[k + 1] = ULong(sent.shape[k])
               /\ strm[Len(sent.shape) + 2].tag = "blob"
               /\ Len(strm[Len(sent.shape) + 2].bytes) = sent.size * SizeofS
        /\ tst # "encoded" =>
               /\ tst = "decoded"
               /\ d.shape = sent.shape
               /\ d.size = sent.size
               /\ ~d.array.null
               /\ Len(d.array.data) = sent.size
               /\ \A i \in 1..sent.size : d.array.data[i] = sent.array.data[i]
               /\ strm = extra

C10_Witness ==
    /\ tst = "decoded"
    /\ sent.shape = <<2, 2>>
    /\ ~sent.own
    /\ d.array.data = <<258, 0, 0, 258>>
    /\ extra # <<>>

(***************************************************************************)
(* Helpers: the operands of the ZipWith under evaluation.                  *)
(***************************************************************************)
InZip == tree.kind = "ZipWith" /\ entry = "eval0"

ZipF == tree.args[1]

ZipL0 == tree.args[2]

ZipL1 == tree.args[3]

ZipBothLists == ZipL0.kind = "List" /\ ZipL1.kind = "List"

\* what f->eval(l0[i], l1[i]) gives for the i-th elements
ZipExpected(i) == eval2(ZipF, ZipL0.args[i], ZipL1.args[i])

\* the evaluation of a tree agrees with evaluate(ctx) run to its return
SmallStepAgrees ==
    (InEval /\ tree.kind # "ZipWith" /\ Finished /\ err # "ASSERT ctx.empty()") =>
        LET r == evaluate(optimise(tree), supplied) IN
        /\ r.ok => (ctx = r.ctx /\ (pc = "returned" => res = r.e))
        /\ ~r.ok => (pc = "failed" /\ err = r.err)

(***************************************************************************)
(* C11: zipWith(f, l0, l1) on two lists of equal length n returns a list   *)
(* of length n whose i-th element is eval(f, l0[i], l1[i]), the results    *)
(* being produced in index order (and it returns whenever each of these    *)
(* returns); on lists of different lengths it raises an error and returns  *)
(* no list; countable() is true and count() is the length of l0.           *)
(***************************************************************************)
C11_ZipWithPairwise ==
    /\ (InZip /\ pc = "returned") =>
           /\ ZipBothLists
           /\ arity(ZipL0) = arity(ZipL1)
           /\ res.kind = "List"
           /\ arity(res) = arity(ZipL0)
           /\ \A i \in 1..arity(ZipL0) : ZipExpected(i).ok /\ res.args[i] = ZipExpected(i).e
    /\ (InZip /\ Running /\ Len(Top.vals) >= 2) =>
           \A i \in 1..(Len(Top.vals) - 2) :
               ZipExpected(i).ok /\ Top.vals[i + 2] = ZipExpected(i).e
    /\ (InZip /\ pc = "failed" /\ ZipBothLists /\ arity(ZipL0) = arity(ZipL1)) =>
           \E i \in 1..arity(ZipL0) : ~ZipExpected(i).ok /\ err = ZipExpected(i).err
    /\ (InZip /\ Finished /\ ZipBothLists /\ arity(ZipL0) # arity(ZipL1)) =>
           pc = "failed" /\ res = NoExp /\ err = "TypeMismatch"
    /\ tree.kind = "ZipWith" => ZipWithCountable(tree)
    /\ (tree.kind = "ZipWith" /\ entry = "count") => res = scalar(arity(ZipL0))

C11_Witness ==
    /\ InZip
    /\ pc = "returned"
    /\ ZipF = add(count(undef), undef)
    /\ ZipL0 = list(<<scalar(1), list(<<scalar(2)>>)>>)
    /\ ZipL1 = list(<<scalar(2), scalar(1)>>)
    /\ res = list(<<scalar(2), scalar(2)>>)

(***************************************************************************)
(* C12: param(i, p) with i < number of args and p not null sets args[i] to *)
(* p and changes nothing else (the number of args, every other slot and    *)
(* the node itself are as before; with p already in slot i nothing         *)
(* changes); with i >= number of args or a null p it fails and args is     *)
(* unchanged.                                                              *)
(***************************************************************************)
C12_ParamSetFrame ==
    [][entry' = "paramSet" =>
          LET i == call'.i
              p == supplied'[1] IN
          /\ tree'.kind = tree.kind
          /\ tree'.val = tree.val
          /\ Len(tree'.args) = Len(tree.args)
          /\ IF i < Len(tree.args) /\ p # NoExp
             THEN /\ pc' = "returned"
                  /\ tree'.args[i + 1] = p
                  /\ \A j \in 1..Len(tree.args) : j # i + 1 => tree'.args[j] = tree.args[j]
                  /\ tree.args[i + 1] = p => tree' = tree
             ELSE /\ pc' = "failed"
                  /\ err' # "none"
                  /\ tree' = tree]_vars

C12_Witness ==
    /\ entry = "paramSet"
    /\ pc = "returned"
    /\ call.i = 1
    /\ supplied = <<undef>>
    /\ tree = add(count(scalar(1)), undef)

(***************************************************************************)
(* Helpers: the product of the entries of a shape, in type Size.           *)
(***************************************************************************)
RECURSIVE Product(_)
Product(shape) == IF shape = <<>> THEN 1 ELSE ToSize(Head(shape) * Product(Tail(shape)))

\* resize as the code has it: when it returns, the shape is the one asked
\* for and size() is flatten of it; the array is kept exactly when the size
\* asked for is the size held, and otherwise a new one is owned and the old
\* one deleted exactly when it was owned; when it throws nothing changes
ResizeAsCoded ==
    [][op'.name = "resize" =>
          IF op'.ok
          THEN /\ t'.shape = op'.shape
               /\ t'.size = flatten(op'.shape)
               /\ t.size = flatten(op'.shape) =>
                      /\ ~op'.alloc
                      /\ t'.array = t.array
                      /\ t'.own = t.own
                      /\ op'.deleted = NullArray
               /\ t.size # flatten(op'.shape) =>
                      /\ op'.alloc
                      /\ t'.own
                      /\ op'.deleted = IF t.own THEN t.array ELSE NullArray
          ELSE t' = t /\ terr' # "none"]_vars

(***************************************************************************)
(* C13: after resize(shape) returns, the tensor's shape is shape and       *)
(* size() is the product of shape's entries; when a new array is allocated *)
(* the tensor owns it, and an array it did not own is not freed.           *)
(***************************************************************************)
C13_ResizeGivesProduct ==
    [][(op'.name = "resize" /\ op'.ok) =>
          /\ t'.shape = op'.shape
          /\ t'.size = Product(op'.shape)
          /\ op'.alloc => t'.own
          /\ ~t.own => op'.deleted = NullArray]_vars

(***************************************************************************)
(* C14: in every state reachable by the constructors, resize, swap and     *)
(* assignment, size() of a tensor that holds an array is the product of    *)
(* the entries of its shape, which is what flatten returns.                *)
(***************************************************************************)
C14_SizeIsProduct ==
    ~t.array.null => (t.size = Product(t.shape) /\ flatten(t.shape) = Product(t.shape))

(***************************************************************************)
(* C15: FunctionTIMESTAMP::eval, for a date with 0 <= date <= INT_MAX and  *)
(* a time with 0 <= time <= 240000, returns trunc(date) * 1000000 +        *)
(* trunc(time) and leaves the missing flag as the arguments left it;       *)
(* otherwise it sets missing and returns 0.  A flag that was true on entry *)
(* or was set by an argument is true on return.                            *)
(***************************************************************************)
C15_TimestampMerges ==
    ts.pc = "done" =>
        LET dateOk == ts.indate.kind = "num" /\ 0 <= ts.indate.h /\ ts.indate.h <= 2 * INT_MAX
            timeOk == ts.intime.kind = "num" /\ 0 <= ts.intime.h /\ ts.intime.h <= 480000 IN
        /\ IF dateOk /\ timeOk
           THEN /\ ts.out.kind = "num"
                /\ ts.out.h = 2 * ((ts.indate.h \div 2) * 1000000 + (ts.intime.h \div 2))
                /\ ts.missing = ts.after1
           ELSE ts.missing /\ ts.out = Num(0)
        /\ ts.entered => ts.missing
        /\ ts.after0 => ts.missing
        /\ ts.after1 => ts.missing

C15_Witness ==
    /\ ts.pc = "done"
    /\ ts.indate = Num(5)
    /\ ts.intime = Num(471919)
    /\ ts.entered
    /\ ts.missing
    /\ ts.out = Num(4471918)

====
